---- MODULE Spec2Model ----
(***************************************************************************)
(* A model of intrico's QuantumCircuit (src/src/qsim_core/circuit.rs) and  *)
(* of the example program (src/examples/circuit.rs).                       *)
(*                                                                         *)
(* Qubit indices are 0-based as in the Rust source; TLA+ sequences are     *)
(* 1-based, so qubits[op.target] of the source is qs[op.target + 1] here.  *)
(* A panic is modelled as the call ending with a non-"ok" outcome; what    *)
(* the call had already changed when it panicked stays changed.            *)
(***************************************************************************)
EXTENDS Integers, Sequences, FiniteSets

\* ------------------------------------------------------------ bounds

\* new(n) is explored for n in 0..MaxQubits; qubit indices passed to the
\* builder calls and array lengths range over 0..MaxQubits as well, so an
\* out-of-bounds index and a mismatching length exist for every n.
MaxQubits == 2

\* The operation list is explored up to this length.
MaxOps == 3

\* Successful execute calls explored on one qubit array since it was zeroed.
MaxExecutes == 2

\* Successful execute calls explored per array when two arrays are compared.
MaxReplays == 1

\* QuantumCircuit::new(3) of the example program.
ExampleQubits == 3

\* ------------------------------------------------------------ vocabulary

SingleGates == {"H", "X", "Y", "Z", "S", "T"}

Gates == SingleGates \cup {"CNOT"}

Indices == 0..MaxQubits

\* The caller's qubit-state arrays: two independent arrays.
Arrays == {1, 2}

None == <<>>

Some(v) == <<v>>

\* How a call ends. A panic carries the values its message formats, in
\* order; its kind is "OutOfBoundsQubit" (cnot, add_gate), "QubitCountMismatch"
\* (execute) or "IndexOutOfBounds" (the slice index of execute's walk).
Ok == [kind |-> "ok", args |-> <<>>]

Panic(kind, args) == [kind |-> kind, args |-> args]

\* ------------------------------------------------------------ state

VARIABLES
    num_qubits,   \* QuantumCircuit.num_qubits
    operations,   \* QuantumCircuit.operations: Vec<GateOp>
    qubits,       \* the caller's arrays: qubits[a] is a sequence of Qubit states
    outcome,      \* how the last call ended: Ok or the panic with its arguments
    calls,        \* history: the builder calls that returned normally, in call order
    twin,         \* history: a circuit given the same builder calls, never executed
    exec_log,     \* history: per array, Len(operations) at each successful execute
    pc            \* position of the example program's main

vars == <<num_qubits, operations, qubits, outcome, calls, twin, exec_log, pc>>

self == [num_qubits |-> num_qubits, operations |-> operations]

\* ------------------------------------------------------------ gate.rs, qubit.rs

GateOp_new(gate, target, step) ==
    [gate |-> gate, target |-> target, control |-> None, step |-> step]

GateOp_controlled(gate, control, target, step) ==
    [gate |-> gate, target |-> target, control |-> Some(control), step |-> step]

\* The transform a gate stands for; CNOT acts on its target as a bit flip.
Transform(gate) == IF gate = "CNOT" THEN "X" ELSE gate

\* A qubit state is the composition of transforms applied to |0>, in order.
Qubit_zero == <<>>

apply(qubit, gate) == Append(qubit, Transform(gate))

ZeroArray(len) == [i \in 1..len |-> Qubit_zero]

\* ------------------------------------------------------------ helpers

Max(S) == CHOOSE m \in S : \A k \in S : k <= m

\* Variant: the step is the global position in the list.
NextStepGlobal(ops, target) == Len(ops)

\* Variant: operations naming the qubit as their control count as well.
NextStepWithControl(ops, target) ==
    LET steps == {ops[i].step : i \in {j \in DOMAIN ops :
                      ops[j].target = target \/ ops[j].control = Some(target)}}
    IN  IF steps = {} THEN 0 ELSE Max(steps) + 1

\* Variant: the maximum is not incremented.
NextStepNoIncrement(ops, target) ==
    LET steps == {ops[i].step : i \in {j \in DOMAIN ops : ops[j].target = target}}
    IN  IF steps = {} THEN 0 ELSE Max(steps)

\* operations.iter().filter(|op| op.target == target).map(|op| op.step)
\*     .max().map(|s| s + 1).unwrap_or(0)
NextStep(ops, target) ==
    LET steps == {ops[i].step : i \in {j \in DOMAIN ops : ops[j].target = target}}
    IN  IF steps = {} THEN 0 ELSE Max(steps) + 1

\* ------------------------------------------------------------ builder calls

\* Variant: the operation is pushed before the bounds check.
AddGateOnPushFirst(c, gate, target) ==
    LET pushed == Append(c.operations,
                         GateOp_new(gate, target, NextStep(c.operations, target)))
    IN  IF target >= c.num_qubits
        THEN [operations |-> pushed,
              outcome |-> Panic("OutOfBoundsQubit", <<target, c.num_qubits>>)]
        ELSE [operations |-> pushed, outcome |-> Ok]

\* Variant: the bounds check is off by one (target > num_qubits).
AddGateOnOffByOne(c, gate, target) ==
    IF target > c.num_qubits
    THEN [operations |-> c.operations,
          outcome |-> Panic("OutOfBoundsQubit", <<target, c.num_qubits>>)]
    ELSE [operations |-> Append(c.operations,
                                GateOp_new(gate, target, NextStep(c.operations, target))),
          outcome |-> Ok]

\* Variant: no bounds check.
AddGateOnUnchecked(c, gate, target) ==
    [operations |-> Append(c.operations,
                           GateOp_new(gate, target, NextStep(c.operations, target))),
     outcome |-> Ok]

\* Variant: the operation is inserted at the front of the list.
AddGateOnInsertFront(c, gate, target) ==
    IF target >= c.num_qubits
    THEN [operations |-> c.operations,
          outcome |-> Panic("OutOfBoundsQubit", <<target, c.num_qubits>>)]
    ELSE [operations |-> <<GateOp_new(gate, target, NextStep(c.operations, target))>>
                             \o c.operations,
          outcome |-> Ok]

\* The result of add_gate on circuit c: the new list and the outcome.
AddGateOn(c, gate, target) ==
    IF target >= c.num_qubits
    THEN [operations |-> c.operations,
          outcome |-> Panic("OutOfBoundsQubit", <<target, c.num_qubits>>)]
    ELSE [operations |-> Append(c.operations,
                                GateOp_new(gate, target, NextStep(c.operations, target))),
          outcome |-> Ok]

\* Variant: only the target is validated.
CnotOnTargetOnly(c, control, target) ==
    IF target >= c.num_qubits
    THEN [operations |-> c.operations,
          outcome |-> Panic("OutOfBoundsQubit", <<c.num_qubits>>)]
    ELSE [operations |-> Append(c.operations,
                                GateOp_controlled("CNOT", control, target,
                                                  NextStep(c.operations, target))),
          outcome |-> Ok]

\* Variant: the control is validated after the operation is pushed.
CnotOnLateControl(c, control, target) ==
    IF target >= c.num_qubits
    THEN [operations |-> c.operations,
          outcome |-> Panic("OutOfBoundsQubit", <<c.num_qubits>>)]
    ELSE LET pushed == Append(c.operations,
                              GateOp_controlled("CNOT", control, target,
                                                NextStep(c.operations, target)))
         IN  IF control >= c.num_qubits
             THEN [operations |-> pushed,
                   outcome |-> Panic("OutOfBoundsQubit", <<c.num_qubits>>)]
             ELSE [operations |-> pushed, outcome |-> Ok]

\* Variant: the step is scanned on the control's timeline.
CnotOnControlStep(c, control, target) ==
    IF control >= c.num_qubits \/ target >= c.num_qubits
    THEN [operations |-> c.operations,
          outcome |-> Panic("OutOfBoundsQubit", <<c.num_qubits>>)]
    ELSE [operations |-> Append(c.operations,
                                GateOp_controlled("CNOT", control, target,
                                                  NextStep(c.operations, control))),
          outcome |-> Ok]

\* Variant: control and target are passed to the constructor swapped.
CnotOnSwapped(c, control, target) ==
    IF control >= c.num_qubits \/ target >= c.num_qubits
    THEN [operations |-> c.operations,
          outcome |-> Panic("OutOfBoundsQubit", <<c.num_qubits>>)]
    ELSE [operations |-> Append(c.operations,
                                GateOp_controlled("CNOT", target, control,
                                                  NextStep(c.operations, target))),
          outcome |-> Ok]

\* Variant: a control equal to the target is rejected.
CnotOnDistinct(c, control, target) ==
    IF control >= c.num_qubits \/ target >= c.num_qubits \/ control = target
    THEN [operations |-> c.operations,
          outcome |-> Panic("OutOfBoundsQubit", <<c.num_qubits>>)]
    ELSE [operations |-> Append(c.operations,
                                GateOp_controlled("CNOT", control, target,
                                                  NextStep(c.operations, target))),
          outcome |-> Ok]

\* The result of cnot on circuit c.
CnotOn(c, control, target) ==
    IF control >= c.num_qubits \/ target >= c.num_qubits
    THEN [operations |-> c.operations,
          outcome |-> Panic("OutOfBoundsQubit", <<c.num_qubits>>)]
    ELSE [operations |-> Append(c.operations,
                                GateOp_controlled("CNOT", control, target,
                                                  NextStep(c.operations, target))),
          outcome |-> Ok]

\* A builder call with result r on the circuit and rt on the twin circuit.
Built(r, rt) ==
    /\ operations' = r.operations
    /\ outcome' = r.outcome
    /\ twin' = [twin EXCEPT !.operations = rt.operations]
    /\ UNCHANGED <<num_qubits, qubits, exec_log>>

\* History: the call is recorded when it returns normally.
Called(method, args) ==
    calls' = IF outcome'.kind = "ok"
             THEN Append(calls, [method |-> method, args |-> args])
             ELSE calls

add_gate(gate, target) ==
    Built(AddGateOn(self, gate, target), AddGateOn(twin, gate, target))

h(target) == add_gate("H", target) /\ Called("h", <<target>>)

x(target) == add_gate("X", target) /\ Called("x", <<target>>)

y(target) == add_gate("Y", target) /\ Called("y", <<target>>)

z(target) == add_gate("Z", target) /\ Called("z", <<target>>)

s(target) == add_gate("S", target) /\ Called("s", <<target>>)

t(target) == add_gate("T", target) /\ Called("t", <<target>>)

cnot_gate(control, target) ==
    Built(CnotOn(self, control, target), CnotOn(twin, control, target))

cnot(control, target) ==
    cnot_gate(control, target) /\ Called("cnot", <<control, target>>)

\* ------------------------------------------------------------ execute

\* Variant: a controlled operation transforms its control qubit as well.
WalkStepBoth(qs, op) ==
    LET done == [qs EXCEPT ![op.target + 1] = apply(@, op.gate)]
    IN  IF op.control = None
        THEN done
        ELSE [done EXCEPT ![op.control[1] + 1] = apply(@, op.gate)]

\* qubits[op.target].apply(op.gate)
WalkStep(qs, op) == [qs EXCEPT ![op.target + 1] = apply(@, op.gate)]

\* Variant: the list is walked from its end.
RECURSIVE WalkReversed(_, _)
WalkReversed(ops, qs) ==
    IF ops = <<>>
    THEN [qubits |-> qs, outcome |-> Ok]
    ELSE IF ops[Len(ops)].target >= Len(qs)
         THEN [qubits |-> qs,
               outcome |-> Panic("IndexOutOfBounds", <<ops[Len(ops)].target, Len(qs)>>)]
         ELSE WalkReversed(SubSeq(ops, 1, Len(ops) - 1), WalkStep(qs, ops[Len(ops)]))

\* for op in &self.operations { ... }: the slice index panics when out of range,
\* leaving the qubits already transformed as they are.
RECURSIVE Walk(_, _)
Walk(ops, qs) ==
    IF ops = <<>>
    THEN [qubits |-> qs, outcome |-> Ok]
    ELSE IF Head(ops).target >= Len(qs)
         THEN [qubits |-> qs,
               outcome |-> Panic("IndexOutOfBounds", <<Head(ops).target, Len(qs)>>)]
         ELSE Walk(Tail(ops), WalkStep(qs, Head(ops)))

\* Variant: the length is checked after the walk.
ExecuteOnLateCheck(c, qs) ==
    LET r == Walk(c.operations, qs)
    IN  IF r.outcome = Ok /\ Len(qs) # c.num_qubits
        THEN [qubits |-> r.qubits,
              outcome |-> Panic("QubitCountMismatch", <<Len(qs), c.num_qubits>>)]
        ELSE r

\* The result of execute on circuit c and array qs.
ExecuteOn(c, qs) ==
    IF Len(qs) # c.num_qubits
    THEN [qubits |-> qs,
          outcome |-> Panic("QubitCountMismatch", <<Len(qs), c.num_qubits>>)]
    ELSE Walk(c.operations, qs)

\* Variant: a successful run consumes the operation list.
executeDrain(a) ==
    LET r == ExecuteOn(self, qubits[a]) IN
    /\ qubits' = [qubits EXCEPT ![a] = r.qubits]
    /\ outcome' = r.outcome
    /\ exec_log' = IF r.outcome.kind = "ok"
                   THEN [exec_log EXCEPT ![a] = Append(@, Len(operations))]
                   ELSE exec_log
    /\ operations' = IF r.outcome.kind = "ok" THEN <<>> ELSE operations
    /\ UNCHANGED <<num_qubits, calls, twin>>

\* Variant: a run resumes after the last operation an earlier run replayed.
executeResume(a) ==
    LET done == UNION {{exec_log[b][i] : i \in 1..Len(exec_log[b])} : b \in Arrays}
        from == IF done = {} THEN 0 ELSE Max(done)
        rest == [self EXCEPT !.operations = SubSeq(operations, from + 1, Len(operations))]
        r == ExecuteOn(rest, qubits[a])
    IN  /\ qubits' = [qubits EXCEPT ![a] = r.qubits]
        /\ outcome' = r.outcome
        /\ exec_log' = IF r.outcome.kind = "ok"
                       THEN [exec_log EXCEPT ![a] = Append(@, Len(operations))]
                       ELSE exec_log
        /\ UNCHANGED <<num_qubits, operations, calls, twin>>

execute(a) ==
    LET r == ExecuteOn(self, qubits[a]) IN
    /\ qubits' = [qubits EXCEPT ![a] = r.qubits]
    /\ outcome' = r.outcome
    /\ exec_log' = IF r.outcome.kind = "ok"
                   THEN [exec_log EXCEPT ![a] = Append(@, Len(operations))]
                   ELSE exec_log
    /\ UNCHANGED <<num_qubits, operations, calls, twin>>

\* The caller builds a fresh array of len zero-state qubits.
zero(a, len) ==
    /\ qubits' = [qubits EXCEPT ![a] = ZeroArray(len)]
    /\ exec_log' = [exec_log EXCEPT ![a] = <<>>]
    /\ UNCHANGED <<num_qubits, operations, outcome, calls, twin>>

num_operations == Len(operations)

\* ------------------------------------------------------------ display

\* let height = 2 * self.num_qubits - 1;  let mut lines = vec![String::new(); height];
\* For num_qubits = 0 the usize subtraction underflows. A build with overflow
\* checks panics at the subtraction; a build without them wraps height to
\* usize::MAX, and vec! of that many Strings panics with a capacity overflow.
\* Otherwise height empty lines are printed and nothing changes.
display ==
    LET height == 2 * num_qubits - 1 IN
    /\ outcome' \in IF height < 0
                    THEN {Panic("SubtractOverflow", <<>>), Panic("CapacityOverflow", <<>>)}
                    ELSE {Ok}
    /\ UNCHANGED <<num_qubits, operations, qubits, calls, twin, exec_log>>

\* ------------------------------------------------------------ specification

new(n) ==
    /\ num_qubits = n
    /\ operations = <<>>

\* After new(n), with both of the caller's arrays holding n zero-state qubits.
Start(n) ==
    /\ new(n)
    /\ qubits = [a \in Arrays |-> ZeroArray(n)]
    /\ outcome = Ok
    /\ calls = <<>>
    /\ twin = self
    /\ exec_log = [a \in Arrays |-> <<>>]
    /\ pc = 0

Init == \E n \in 0..MaxQubits : Start(n)

\* The list is explored up to MaxOps entries; a failing call is always explored.
Room(target) == Len(operations) < MaxOps \/ target >= num_qubits

Build ==
    \/ \E target \in Indices : Room(target) /\ h(target) /\ UNCHANGED pc
    \/ \E target \in Indices : Room(target) /\ x(target) /\ UNCHANGED pc
    \/ \E target \in Indices : Room(target) /\ y(target) /\ UNCHANGED pc
    \/ \E target \in Indices : Room(target) /\ z(target) /\ UNCHANGED pc
    \/ \E target \in Indices : Room(target) /\ s(target) /\ UNCHANGED pc
    \/ \E target \in Indices : Room(target) /\ t(target) /\ UNCHANGED pc
    \/ \E control, target \in Indices :
          /\ Room(target) \/ control >= num_qubits
          /\ cnot(control, target)
          /\ UNCHANGED pc

\* One caller array: built with any length, executed any number of times
\* (MaxExecutes successful runs are explored between two zeroings).
Next ==
    \/ Build
    \/ /\ Len(exec_log[1]) < MaxExecutes \/ Len(qubits[1]) # num_qubits
       /\ execute(1)
       /\ UNCHANGED pc
    \/ \E len \in 0..MaxQubits : zero(1, len) /\ UNCHANGED pc

Spec == Init /\ [][Next]_vars

\* Builder calls alone.
SpecBuild == Init /\ [][Build]_vars

\* Builder calls and display.
NextDisplay ==
    \/ Build
    \/ display /\ UNCHANGED pc

SpecDisplay == Init /\ [][NextDisplay]_vars

\* Two caller arrays of the circuit's size, each run against the circuit
\* (MaxReplays successful runs are explored between two zeroings).
NextReplay ==
    \/ Build
    \/ \E a \in Arrays :
          /\ Len(exec_log[a]) < MaxReplays
          /\ execute(a)
          /\ UNCHANGED pc
    \/ \E a \in Arrays : zero(a, num_qubits) /\ UNCHANGED pc

SpecReplay == Init /\ [][NextReplay]_vars

\* src/examples/circuit.rs
main ==
    \/ pc = 0 /\ h(0) /\ pc' = 1
    \/ pc = 1 /\ x(0) /\ pc' = 2
    \/ pc = 2 /\ x(1) /\ pc' = 3
    \/ pc = 3 /\ y(1) /\ pc' = 4
    \/ pc = 4 /\ z(1) /\ pc' = 5
    \/ pc = 5 /\ cnot(1, 2) /\ pc' = 6
    \/ pc = 6 /\ z(2) /\ pc' = 7
    \/ pc = 7 /\ cnot(2, 0) /\ pc' = 8
    \/ pc = 8 /\ x(0) /\ pc' = 9

\* The example program, with runs of the circuit on the caller's array
\* interleaved at any point of it.
NextExample ==
    \/ main
    \/ /\ Len(exec_log[1]) < MaxExecutes \/ Len(qubits[1]) # num_qubits
       /\ execute(1)
       /\ UNCHANGED pc
    \/ \E len \in (0..MaxQubits) \cup {num_qubits} : zero(1, len) /\ UNCHANGED pc

SpecExample == Start(ExampleQubits) /\ [][NextExample]_vars

\* ------------------------------------------------------------ properties

\* The operations of ops whose target is q, in append order.
OnTarget(ops, q) == SelectSeq(ops, LAMBDA op : op.target = q)

Targets(ops) == {ops[i].target : i \in DOMAIN ops}

\* C1: for every qubit index, the steps of the operations with that target,
\* read in append order, are 0, 1, ..., k-1.
PerTargetSteps ==
    \A q \in Targets(operations) \cup Indices :
        LET on == OnTarget(operations, q)
        IN  \A i \in 1..Len(on) : on[i].step = i - 1

\* Three operations, the first and the third (a CNOT) on one target and the
\* second on another.
PerTargetStepsWitness ==
    /\ Len(operations) = 3
    /\ operations[1].target = operations[3].target
    /\ operations[2].target # operations[1].target
    /\ operations[3].gate = "CNOT"
    /\ operations[3].step = 1

\* C2: every recorded operation has target < num_qubits and, when it has a
\* control, control < num_qubits.
BoundsInvariant ==
    \A i \in DOMAIN operations :
        /\ operations[i].target < num_qubits
        /\ operations[i].control # None => operations[i].control[1] < num_qubits

\* A cnot call has just failed on a circuit that holds a controlled operation.
BoundsWitness ==
    /\ outcome = Panic("OutOfBoundsQubit", <<num_qubits>>)
    /\ \E i \in DOMAIN operations : operations[i].control # None

\* The target a recorded call names: its last argument.
CallTarget(call) == call.args[Len(call.args)]

\* C3: num_operations() is the number of builder calls that succeeded, and
\* the i-th operation of the list is the one the i-th successful call appended.
CountsSuccessfulCalls ==
    /\ num_operations = Len(calls)
    /\ \A i \in DOMAIN calls :
          /\ i \in DOMAIN operations
          /\ operations[i].target = CallTarget(calls[i])
          /\ (calls[i].method = "cnot") = (operations[i].gate = "CNOT")

\* Two calls have succeeded, on different targets, and the last call failed.
CountsWitness ==
    /\ num_qubits >= 1
    /\ Len(calls) = 2
    /\ CallTarget(calls[1]) # CallTarget(calls[2])
    /\ outcome.kind = "OutOfBoundsQubit"

\* What a failed builder call leaves as it was: the list, and the step the
\* next operation on any target will get.
CircuitUnchanged ==
    /\ outcome'.kind = "OutOfBoundsQubit"
    /\ operations' = operations
    /\ num_qubits' = num_qubits
    /\ \A q \in Indices : NextStep(operations', q) = NextStep(operations, q)

\* C4: a single-qubit call with target >= num_qubits, and a cnot call with
\* control >= num_qubits or target >= num_qubits, fails and leaves the circuit
\* unchanged.
FailedCallUnchanged ==
    [][ /\ \A g \in SingleGates, q \in Indices :
              (q >= num_qubits /\ add_gate(g, q)) => CircuitUnchanged
        /\ \A c, q \in Indices :
              ((c >= num_qubits \/ q >= num_qubits) /\ cnot_gate(c, q))
                  => CircuitUnchanged ]_vars

\* A cnot call has failed on a circuit of two qubits holding operations (its
\* panic names the qubit count only).
FailedCallWitness ==
    /\ num_qubits = 2
    /\ Len(operations) >= 2
    /\ outcome = Panic("OutOfBoundsQubit", <<2>>)

\* C5: execute on an array whose length differs from num_qubits fails with
\* the count mismatch and changes no qubit state; on an array of length
\* num_qubits it completes, having applied every recorded operation (each
\* qubit has received as many transforms as there are operations on it).
ExecuteAllOrNothing ==
    [][ \A a \in Arrays : execute(a) =>
            IF Len(qubits[a]) # num_qubits
            THEN /\ outcome' = Panic("QubitCountMismatch", <<Len(qubits[a]), num_qubits>>)
                 /\ qubits' = qubits
            ELSE /\ outcome' = Ok
                 /\ Len(qubits'[a]) = num_qubits
                 /\ \A q \in 1..num_qubits :
                       Len(qubits'[a][q]) =
                           Len(qubits[a][q]) + Len(OnTarget(operations, q - 1)) ]_vars

\* execute has just failed on an array shorter than the circuit, and the
\* circuit holds an operation on a qubit the array has.
ExecuteAllOrNothingWitness ==
    /\ outcome.kind = "QubitCountMismatch"
    /\ Len(qubits[1]) < num_qubits
    /\ \E i \in DOMAIN operations : operations[i].target < Len(qubits[1])

\* C6: execute on an array of length num_qubits leaves unchanged every qubit
\* that is the target of no operation (a qubit that is only a control among
\* them), and leaves the caller's other array alone.
ExecuteFrame ==
    [][ \A a \in Arrays : (execute(a) /\ Len(qubits[a]) = num_qubits) =>
            /\ \A q \in 1..num_qubits :
                  q - 1 \notin Targets(operations) => qubits'[a][q] = qubits[a][q]
            /\ \A b \in Arrays \ {a} : qubits'[b] = qubits[b] ]_vars

\* The array has been run: a qubit that is the control of a CNOT and the
\* target of nothing is still in the zero state, another qubit is not.
ExecuteFrameWitness ==
    /\ exec_log[1] # <<>>
    /\ \E i \in DOMAIN operations :
          /\ operations[i].control # None
          /\ operations[i].control[1] \notin Targets(operations)
          /\ qubits[1][operations[i].control[1] + 1] = Qubit_zero
          /\ qubits[1][operations[i].target + 1] # Qubit_zero

\* C7: a successful cnot(control, target) with control # target advances the
\* target's next step by one and leaves the control's next step as it was:
\* the number of operations whose target is the control qubit.
CnotStepAsymmetry ==
    [][ \A c, q \in Indices : (c # q /\ cnot_gate(c, q) /\ outcome' = Ok) =>
            /\ NextStep(operations', c) = NextStep(operations, c)
            /\ NextStep(operations', c) = Len(OnTarget(operations', c))
            /\ NextStep(operations', q) = NextStep(operations, q) + 1 ]_vars

\* A CNOT whose control qubit had an operation before it and got the next
\* one after it: that one has step 1.
CnotStepAsymmetryWitness ==
    /\ Len(operations) = 3
    /\ operations[2].gate = "CNOT"
    /\ operations[2].control # <<operations[2].target>>
    /\ operations[1].target = operations[2].control[1]
    /\ operations[3].target = operations[2].control[1]
    /\ operations[3].step = 1

TransformsOn(ops, q) ==
    LET on == OnTarget(ops, q)
    IN  [i \in 1..Len(on) |-> Transform(on[i].gate)]

\* The state of qubit q after the runs of log, each a replay of the whole
\* list as it was at that run.
RECURSIVE Replayed(_, _)
Replayed(log, q) ==
    IF log = <<>>
    THEN Qubit_zero
    ELSE TransformsOn(SubSeq(operations, 1, Head(log)), q) \o Replayed(Tail(log), q)

\* C9: execute leaves the circuit as the builder calls made it (the circuit
\* equals its twin, which got the same builder calls and no execute), and
\* every successful execute replays the whole list of its moment: a qubit's
\* state is the concatenation of those replays.
InterleaveFreely ==
    /\ twin = self
    /\ \A a \in Arrays : \A q \in 1..Len(qubits[a]) :
          qubits[a][q] = Replayed(exec_log[a], q - 1)

\* build, execute, build, execute, build on one array.
InterleaveFreelyWitness ==
    /\ exec_log[1] = <<1, 2>>
    /\ Len(operations) = 3
    /\ operations[3].step = 1
    /\ outcome = Ok

StepsOn(q) ==
    LET on == OnTarget(operations, q)
    IN  [i \in 1..Len(on) |-> on[i].step]

\* C10 as stated: after the example program, nine operations, three with
\* each of the targets 0, 1 and 2, at steps 0, 1, 2.
ExampleThreeEach ==
    pc = 9 =>
        /\ num_operations = 9
        /\ \A q \in 0..2 : StepsOn(q) = <<0, 1, 2>>

\* C10 amended: after the example program, nine operations: four with
\* target 0 at steps 0..3, three with target 1 at steps 0..2, two with
\* target 2 at steps 0..1.
ExampleDistribution ==
    pc = 9 =>
        /\ num_operations = 9
        /\ StepsOn(0) = <<0, 1, 2, 3>>
        /\ StepsOn(1) = <<0, 1, 2>>
        /\ StepsOn(2) = <<0, 1>>

\* The example program has run to its end.
ExampleWitness ==
    /\ pc = 9
    /\ num_qubits = ExampleQubits
    /\ Len(calls) = 9

\* C11: on a circuit of zero qubits every builder call fails with the
\* out-of-bounds error and the list stays empty; execute on an empty array
\* succeeds and changes nothing.
ZeroQubitBoundary ==
    [][ num_qubits = 0 =>
          /\ \A g \in SingleGates, q \in Indices : add_gate(g, q) =>
                /\ outcome'.kind = "OutOfBoundsQubit"
                /\ operations' = <<>>
          /\ \A c, q \in Indices : cnot_gate(c, q) =>
                /\ outcome'.kind = "OutOfBoundsQubit"
                /\ operations' = <<>>
          /\ \A a \in Arrays : (execute(a) /\ qubits[a] = <<>>) =>
                /\ outcome' = Ok
                /\ qubits' = qubits
                /\ operations' = <<>> ]_vars

\* On a circuit of zero qubits, execute has succeeded on the empty array and
\* a builder call has failed since.
ZeroQubitBoundaryWitness ==
    /\ num_qubits = 0
    /\ exec_log[1] # <<>>
    /\ qubits[1] = <<>>
    /\ outcome.kind = "OutOfBoundsQubit"
    /\ operations = <<>>

\* C12 as stated: the out-of-bounds error of every builder call carries the
\* offending index and the qubit count; the count-mismatch error carries the
\* array length and the qubit count.
ErrorsCarryBoth ==
    /\ outcome.kind = "OutOfBoundsQubit" =>
          /\ Len(outcome.args) = 2
          /\ outcome.args[1] >= num_qubits
          /\ outcome.args[2] = num_qubits
    /\ outcome.kind = "QubitCountMismatch" =>
          /\ Len(outcome.args) = 2
          /\ outcome.args[1] # num_qubits
          /\ outcome.args[2] = num_qubits

\* C18 as stated: display completes on every circuit new can construct.
DisplayCompletes ==
    outcome.kind \notin {"SubtractOverflow", "CapacityOverflow"}

\* The transforms of the operations of ops with target q, in increasing
\* step order.
InStepOrder(ops, q) ==
    LET on == {i \in DOMAIN ops : ops[i].target = q}
    IN  [k \in 1..Cardinality(on) |->
            Transform(ops[CHOOSE i \in on : ops[i].step = k - 1].gate)]

\* C13: one execute on an array of length num_qubits applies to every qubit
\* the gates of the operations with that target, each once, in increasing
\* step order.
ReplayOrder ==
    [][ \A a \in Arrays : (execute(a) /\ Len(qubits[a]) = num_qubits) =>
            \A q \in 1..num_qubits :
                qubits'[a][q] = qubits[a][q] \o InStepOrder(operations, q - 1) ]_vars

\* new(1); h(0); x(0), run once on a zero-state qubit: H then X.
ReplayOrderWitness ==
    /\ num_qubits = 1
    /\ exec_log[1] = <<2>>
    /\ qubits[1] = << <<"H", "X">> >>

\* The gate a builder method records.
MethodGate(method) ==
    CASE method = "h" -> "H"
      [] method = "x" -> "X"
      [] method = "y" -> "Y"
      [] method = "z" -> "Z"
      [] method = "s" -> "S"
      [] method = "t" -> "T"
      [] method = "cnot" -> "CNOT"

\* The list an implementation keeping a 'next step' counter per qubit builds
\* from the successful calls cs: the counter of the call's target stamps the
\* operation and is incremented.
RECURSIVE CounterBuild(_, _, _)
CounterBuild(cs, counter, built) ==
    IF cs = <<>>
    THEN built
    ELSE LET call == Head(cs)
             target == CallTarget(call)
             op == [gate |-> MethodGate(call.method),
                    target |-> target,
                    control |-> IF call.method = "cnot" THEN <<call.args[1]>> ELSE <<>>,
                    step |-> counter[target]]
         IN  CounterBuild(Tail(cs), [counter EXCEPT ![target] = @ + 1], Append(built, op))

\* C14: the list built by the step scan is the list the counter
\* implementation builds from the same successful calls.
ScanEqualsCounter ==
    operations = CounterBuild(calls, [q \in Indices |-> 0], <<>>)

\* Three successful calls, the last a cnot on the target of the first, with
\* another target in between.
ScanEqualsCounterWitness ==
    /\ Len(calls) = 3
    /\ calls[3].method = "cnot"
    /\ CallTarget(calls[3]) = CallTarget(calls[1])
    /\ CallTarget(calls[2]) # CallTarget(calls[1])
    /\ operations[3].step = 1

\* C15: num_qubits never changes and the list only grows at its end: the
\* list before a step is a prefix of the list after it.
AppendOnly ==
    [][ /\ num_qubits' = num_qubits
        /\ Len(operations') >= Len(operations)
        /\ SubSeq(operations', 1, Len(operations)) = operations ]_vars

\* Three operations recorded, the array run in between and a call failed.
AppendOnlyWitness ==
    /\ Len(operations) = 3
    /\ exec_log[1] = <<1, 2>>
    /\ outcome.kind = "OutOfBoundsQubit"

\* C16: a recorded operation has a control exactly when its gate is CNOT;
\* the operation a single-qubit call appended carries that call's gate, its
\* target and no control; the operation cnot(c, q) appended carries CNOT,
\* control c and target q.
ControlField ==
    \A i \in DOMAIN operations :
        /\ (operations[i].control # None) = (operations[i].gate = "CNOT")
        /\ i \in DOMAIN calls
        /\ operations[i].gate = MethodGate(calls[i].method)
        /\ IF calls[i].method = "cnot"
           THEN /\ operations[i].control = <<calls[i].args[1]>>
                /\ operations[i].target = calls[i].args[2]
           ELSE /\ operations[i].control = None
                /\ operations[i].target = calls[i].args[1]

\* A CNOT with control # target and a single-qubit operation are recorded.
ControlFieldWitness ==
    /\ \E i \in DOMAIN operations :
          /\ operations[i].gate = "CNOT"
          /\ operations[i].control # <<operations[i].target>>
    /\ \E i \in DOMAIN operations :
          /\ operations[i].gate = "Y"
          /\ operations[i].control = None

\* C17: execute's walk never indexes outside the array: on every array of
\* length num_qubits execute completes, and no call has ended with the
\* slice index out of range.
ExecuteInRange ==
    /\ outcome.kind # "IndexOutOfBounds"
    /\ \A a \in Arrays :
          Len(qubits[a]) = num_qubits => ExecuteOn(self, qubits[a]).outcome = Ok

\* The array has been run against a list with an operation on the last
\* qubit of a circuit of at least two qubits.
ExecuteInRangeWitness ==
    /\ num_qubits >= 2
    /\ outcome = Ok
    /\ exec_log[1] # <<>>
    /\ qubits[1][num_qubits] # Qubit_zero

\* C19: a cnot call with both indices in bounds, control = target included,
\* succeeds and appends one CNOT operation with that control and target,
\* stamped with the target's next step, which it advances by one.
CnotBoundsOnly ==
    [][ \A c, q \in Indices :
            (c < num_qubits /\ q < num_qubits /\ cnot_gate(c, q)) =>
                /\ outcome' = Ok
                /\ operations' = Append(operations,
                                        [gate |-> "CNOT", target |-> q, control |-> <<c>>,
                                         step |-> Len(OnTarget(operations, q))])
                /\ NextStep(operations', q) = NextStep(operations, q) + 1 ]_vars

\* A CNOT whose control is its target is recorded after another operation on
\* that qubit.
CnotBoundsOnlyWitness ==
    \E i \in DOMAIN operations :
        /\ operations[i].gate = "CNOT"
        /\ operations[i].control = <<operations[i].target>>
        /\ operations[i].step = 1

====
